---- MODULE Spec2Model ----
(***************************************************************************)
(* Model of mortgage_calculator_new.py: the amortization engine            *)
(* (MortgageCalculatorEngine) and the payoff projection computed by        *)
(* MortgageCalculator.calculate.                                           *)
(*                                                                         *)
(* Python floats are modelled as fixed-point numbers, truncated after      *)
(* every multiplication and division (Python rounds to nearest at 2^-53    *)
(* relative precision; here the grain is coarser but every operation is    *)
(* still performed in the order the source performs it):                   *)
(*   - an amount of money is an integer number of ticks, MoneyScale ticks  *)
(*     to one currency unit;                                               *)
(*   - a dimensionless ratio (monthly rate, growth factor) is an integer   *)
(*     number of 1/RateScale;                                              *)
(*   - interest_rate, a percentage, is an integer number of 1/PercentScale *)
(*     percent.                                                            *)
(* TLC integers are 32 bits wide, so products are taken limb by limb.      *)
(***************************************************************************)
EXTENDS Integers, Sequences, FiniteSets, TLC

\* ------------------------------------------------------------------ bounds
MaxTermYears == 2
MaxCalls == 2
MaxCalcs == 2
MaxExports == 1

\* ------------------------------------------------------- fixed-point floats
MoneyScale == 100000
Limb == 10000
RateScale == Limb * Limb
PercentScale == 100

\* floor(a * b / RateScale) for a, b >= 0, without leaving 32 bits
MulRate(a, b) ==
    LET a1 == a \div Limb
        a0 == a % Limb
        b1 == b \div Limb
        b0 == b % Limb
    IN  a1 * b1 + ((a1 * b0 + a0 * b1 + ((a0 * b0) \div Limb)) \div Limb)

\* the next `digits` decimal digits of rem / d appended to q (long division)
RECURSIVE LongDiv(_, _, _, _)
LongDiv(q, rem, d, digits) ==
    IF digits = 0 THEN q
    ELSE LongDiv(q * 10 + ((rem * 10) \div d), (rem * 10) % d, d, digits - 1)

\* floor(a * RateScale / d) for a >= 0, d > 0 (RateScale = 10^8)
DivRate(a, d) == LongDiv(a \div d, a % d, d, 8)

\* base ** n for a ratio base and an integer n >= 0 (binary exponentiation)
RECURSIVE PowRate(_, _)
PowRate(base, n) ==
    IF n = 0 THEN RateScale
    ELSE LET half == PowRate(base, n \div 2)
             sq == MulRate(half, half)
         IN  IF n % 2 = 1 THEN MulRate(sq, base) ELSE sq

\* interest_rate / 100 / 12
MonthlyRate(interest_rate) ==
    (interest_rate * (RateScale \div (PercentScale * 100))) \div 12

\* ------------------------------------------------ MortgageCalculatorEngine
VARIABLES
    loan_amount,      \* self.loan_amount   (money)
    interest_rate,    \* self.interest_rate (percent)
    term_years,       \* self.term_years
    extra_payment,    \* self.extra_payment (money)
    monthly_fee,      \* self.monthly_fee   (money)
    pc,               \* "idle", or "loop" while calculate_amortization runs
    monthly_rate,     \* calculate_amortization's locals
    months,
    payment,
    schedule,
    balance,
    total_interest,
    month,
    pre,              \* the engine's fields on entry to the last call
    result,           \* what the last calculate_amortization call returned
    prev_result,      \* what the call before it returned (same configuration)
    calls,            \* completed calls since the caller wrote the parameters
    fresh             \* first results on engines configured alike but for extra_payment

engineVars == <<loan_amount, interest_rate, term_years, extra_payment, monthly_fee>>
localVars == <<monthly_rate, months, payment, schedule, balance, total_interest, month>>
callerVars == <<pre, result, prev_result, calls, fresh>>
engineSide == <<loan_amount, interest_rate, term_years, extra_payment, monthly_fee,
                pc, monthly_rate, months, payment, schedule, balance, total_interest,
                month, pre, result, prev_result, calls, fresh>>

\* ------------------------------------------------------ MortgageCalculator
\* The text of an entry is the empty sequence for "" and otherwise <<v>>, v the
\* number get_float_value reads from it.  Variables that are only displayed
\* hold the whole number of currency units shown.
VARIABLES
    loan_seeking_var,        \* entry texts
    down_payment_var,
    interest_rate_var,
    principal_payment_var,
    extra_payment_var,
    monthly_fee_var,
    loan_amount_var,         \* read-only display
    down_payment_mode,       \* "auto" or "manual"
    down_payment_entry,      \* state of the entry widget: "disabled" or "normal"
    current_values,          \* self.current_values
    results,                 \* the result StringVars
    chart,                   \* the bars drawn by update_yearly_visualization
    messagebox,              \* the error the last handler showed, "" if none
    calcs,                   \* calculate invocations so far
    projections,             \* payoff projections of successful calculations that
                             \* differ in the extra payment only
    exports                  \* the PDF files written by export_pdf, oldest first

VARIABLES
    float_argument,          \* the argument of a get_float_value call
    float_result,            \* what that call did
    validated                \* what a validate_inputs call returned

functionVars == <<float_argument, float_result, validated>>

appVars == <<loan_seeking_var, down_payment_var, interest_rate_var,
             principal_payment_var, extra_payment_var, monthly_fee_var,
             loan_amount_var, down_payment_mode, down_payment_entry,
             current_values, results, chart, messagebox, calcs, projections,
             exports>>

vars == <<engineSide, appVars, functionVars>>

NoResult == [schedule |-> <<>>, total_interest |-> 0, final_payment_month |-> -1]

EngineFields ==
    [loan_amount |-> loan_amount, interest_rate |-> interest_rate,
     term_years |-> term_years, extra_payment |-> extra_payment,
     monthly_fee |-> monthly_fee]

\* calculate_monthly_payment with the annuity denominator's "- 1" forgotten
PaymentWithoutMinusOne(la, rate, n) ==
    IF rate = 0 THEN la \div n
    ELSE LET growth == PowRate(RateScale + rate, n)
         IN  DivRate(MulRate(MulRate(la, rate), growth), growth)

\* the payment of a loan without interest, spread over the years of the term
PaymentPerYearAtZeroRate(la, rate, n) ==
    IF rate = 0 THEN la \div (n \div 12)
    ELSE LET growth == PowRate(RateScale + rate, n)
         IN  DivRate(MulRate(MulRate(la, rate), growth), growth - RateScale)

\* calculate_monthly_payment
calculate_monthly_payment(la, rate, n) ==
    IF rate = 0 THEN la \div n
    ELSE LET growth == PowRate(RateScale + rate, n)
         IN  DivRate(MulRate(MulRate(la, rate), growth), growth - RateScale)

\* interest = balance * monthly_rate
MonthInterest(bal, rate) == MulRate(bal, rate)

\* principal = payment - interest
MonthPrincipal(pay, interest) == pay - interest

\* total_payment without the clamp to the balance
TotalPaymentUnclamped(principal, extra, bal) == principal + extra

\* total_payment whose clamp drops the extra payment but keeps the principal
TotalPaymentClampExtraOnly(principal, extra, bal) ==
    IF principal + extra > bal THEN principal ELSE principal + extra

\* total_payment with the extra payment subtracted instead of added
TotalPaymentExtraSubtracted(principal, extra, bal) ==
    IF principal - extra > bal THEN bal ELSE principal - extra

\* total_payment = principal + self.extra_payment, clamped to the balance
TotalPayment(principal, extra, bal) ==
    IF principal + extra > bal THEN bal ELSE principal + extra

\* self.extra_payment never reset by the clamp
ExtraKept(principal, extra, bal) == extra

\* self.extra_payment after the clamp test
ExtraAfterClamp(principal, extra, bal) ==
    IF principal + extra > bal THEN 0 ELSE extra

\* the dict appended to schedule, with a 0-based month
ScheduleEntryZeroBased(m, total_payment, principal, interest, bal, extra, fee) ==
    [month |-> m - 1, payment |-> total_payment + fee, principal |-> principal,
     interest |-> interest, balance |-> bal, extra_payment |-> extra, fee |-> fee]

\* the dict appended to schedule
ScheduleEntry(m, total_payment, principal, interest, bal, extra, fee) ==
    [month |-> m, payment |-> total_payment + fee, principal |-> principal,
     interest |-> interest, balance |-> bal, extra_payment |-> extra, fee |-> fee]

\* the dict calculate_amortization returns
ReturnValue(sched, interest) ==
    [schedule |-> sched, total_interest |-> interest,
     final_payment_month |-> Len(sched)]

\* the loop goes on: month is in range(1, months + 1) and balance > 0
LoopContinues == month <= months /\ balance > 0

\* ------------------------------------------------------------------ inputs
LoanAmounts == {1000 * MoneyScale, 2500 * MoneyScale}
InterestRates == {0, 450, 3000}
TermYearChoices == 1..MaxTermYears
ExtraPayments == {0, 60 * MoneyScale, 400 * MoneyScale}
MonthlyFees == {0, 50 * MoneyScale}

EngineInit ==
    /\ loan_amount = 0
    /\ interest_rate = 0
    /\ term_years = 30
    /\ extra_payment = 0
    /\ monthly_fee = 0
    /\ pc = "idle"
    /\ monthly_rate = 0
    /\ months = 0
    /\ payment = 0
    /\ schedule = <<>>
    /\ balance = 0
    /\ total_interest = 0
    /\ month = 0
    /\ pre = EngineFields
    /\ result = NoResult
    /\ prev_result = NoResult
    /\ calls = 0
    /\ fresh = {}

\* the caller writes the loan parameters into the engine's fields
Configure(la, ir, ty, ep, fee) ==
    /\ pc = "idle"
    /\ UNCHANGED <<appVars, functionVars>>
    /\ loan_amount' = la
    /\ interest_rate' = ir
    /\ term_years' = ty
    /\ extra_payment' = ep
    /\ monthly_fee' = fee
    /\ calls' = 0
    /\ result' = NoResult
    /\ prev_result' = NoResult
    /\ fresh' = IF /\ la = loan_amount /\ ir = interest_rate
                   /\ ty = term_years /\ fee = monthly_fee
                THEN fresh ELSE {}
    /\ UNCHANGED <<pc, pre>>
    /\ UNCHANGED localVars

\* calculate_amortization, up to the loop
CallAmortization ==
    /\ pc = "idle"
    /\ UNCHANGED <<appVars, functionVars>>
    /\ calls < MaxCalls
    /\ pc' = "loop"
    /\ pre' = EngineFields
    /\ monthly_rate' = MonthlyRate(interest_rate)
    /\ months' = term_years * 12
    /\ payment' = calculate_monthly_payment(loan_amount, MonthlyRate(interest_rate),
                                            term_years * 12)
    /\ schedule' = <<>>
    /\ balance' = loan_amount
    /\ total_interest' = 0
    /\ month' = 1
    /\ UNCHANGED engineVars
    /\ UNCHANGED <<result, prev_result, calls, fresh>>

\* one iteration of the loop
LoopIteration ==
    /\ pc = "loop"
    /\ UNCHANGED <<appVars, functionVars>>
    /\ LoopContinues
    /\ LET interest == MonthInterest(balance, monthly_rate)
           principal == MonthPrincipal(payment, interest)
           total_payment == TotalPayment(principal, extra_payment, balance)
           extra == ExtraAfterClamp(principal, extra_payment, balance)
       IN  /\ extra_payment' = extra
           /\ balance' = balance - total_payment
           /\ total_interest' = total_interest + interest
           /\ schedule' = Append(schedule,
                              ScheduleEntry(month, total_payment, principal, interest,
                                            balance - total_payment, extra, monthly_fee))
    /\ month' = month + 1
    /\ UNCHANGED <<loan_amount, interest_rate, term_years, monthly_fee>>
    /\ UNCHANGED <<pc, monthly_rate, months, payment>>
    /\ UNCHANGED callerVars

\* the loop is left and the result returned to the caller
ReturnAmortization ==
    /\ pc = "loop"
    /\ UNCHANGED <<appVars, functionVars>>
    /\ ~LoopContinues
    /\ pc' = "idle"
    /\ result' = ReturnValue(schedule, total_interest)
    /\ prev_result' = result
    /\ calls' = calls + 1
    /\ fresh' = IF calls = 0
                THEN fresh \cup {[extra_payment |-> pre.extra_payment,
                                  final_payment_month |-> Len(schedule),
                                  total_interest |-> total_interest]}
                ELSE fresh
    /\ monthly_rate' = 0
    /\ months' = 0
    /\ payment' = 0
    /\ schedule' = <<>>
    /\ balance' = 0
    /\ total_interest' = 0
    /\ month' = 0
    /\ UNCHANGED engineVars
    /\ UNCHANGED pre

EngineNext ==
    \/ \E la \in LoanAmounts, ir \in InterestRates, ty \in TermYearChoices,
          ep \in ExtraPayments, fee \in MonthlyFees : Configure(la, ir, ty, ep, fee)
    \/ CallAmortization
    \/ LoopIteration
    \/ ReturnAmortization

\* ------------------------------------------------------ MortgageCalculator
\* every float of the application (amounts of money and the interest rate in
\* percent) is an integer number of 1/AmountScale: the amounts go up to the
\* 100 million of validate_inputs
AmountScale == 10
MaxLoanSeeking == 100000000
MaxInterestRate == 30
BaselineMonths == 360

\* ------------------------------------------------------------- strings
\* a Python str is the sequence of its characters
Digits == <<"0", "1", "2", "3", "4", "5", "6", "7", "8", "9">>

IsDigit(c) == c \in {"0", "1", "2", "3", "4", "5", "6", "7", "8", "9"}

\* int(c) of a digit character
DigitValue(c) ==
    CASE c = "0" -> 0 [] c = "1" -> 1 [] c = "2" -> 2 [] c = "3" -> 3 [] c = "4" -> 4
      [] c = "5" -> 5 [] c = "6" -> 6 [] c = "7" -> 7 [] c = "8" -> 8 [] c = "9" -> 9

\* old in s
Contains(s, old) ==
    \E i \in 1..(Len(s) - Len(old) + 1) : SubSeq(s, i, i + Len(old) - 1) = old

\* str.replace(old, new): the occurrences of old, left to right without overlap
RECURSIVE Replace(_, _, _)
Replace(s, old, new) ==
    IF ~Contains(s, old) THEN s
    ELSE IF SubSeq(s, 1, Len(old)) = old
    THEN new \o Replace(SubSeq(s, Len(old) + 1, Len(s)), old, new)
    ELSE <<Head(s)>> \o Replace(Tail(s), old, new)

\* str.strip()
RECURSIVE Strip(_)
Strip(s) ==
    IF s = <<>> THEN s
    ELSE IF Head(s) = " " THEN Strip(Tail(s))
    ELSE IF s[Len(s)] = " " THEN Strip(SubSeq(s, 1, Len(s) - 1))
    ELSE s

\* str.count(c) of one character
Count(s, c) == Cardinality({i \in 1..Len(s) : s[i] = c})

\* str.find(c) of a character that occurs, as a position from 1
Find(s, c) == CHOOSE i \in 1..Len(s) : s[i] = c /\ \A j \in 1..(i - 1) : s[j] # c

\* a cleaning that leaves the commas in place
CleanedStrKeepingCommas(value_str) ==
    LET stripped == Strip(Replace(Replace(value_str, <<"k", "r">>, <<>>), <<"$">>, <<>>))
    IN  IF Contains(stripped, <<".">>) /\ Count(stripped, ".") > 1
        THEN LET first_period == Find(stripped, ".")
             IN  SubSeq(stripped, 1, first_period) \o
                 Replace(SubSeq(stripped, first_period + 1, Len(stripped)),
                         <<".">>, <<>>)
        ELSE stripped

\* the string float() is applied to: lines 742-748 of get_float_value
CleanedStr(value_str) ==
    LET stripped == Strip(Replace(Replace(value_str, <<"k", "r">>, <<>>), <<"$">>, <<>>))
        periods == Replace(stripped, <<",">>, <<".">>)
    IN  IF Contains(periods, <<".">>) /\ Count(periods, ".") > 1
        THEN LET first_period == Find(periods, ".")
             IN  SubSeq(periods, 1, first_period) \o
                 Replace(SubSeq(periods, first_period + 1, Len(periods)), <<".">>, <<>>)
        ELSE periods

\* the strings of digits and at most one '.', at least one digit, that float()
\* accepts after an optional sign
IsUnsignedLiteral(s) ==
    /\ \A i \in 1..Len(s) : IsDigit(s[i]) \/ s[i] = "."
    /\ Count(s, ".") <= 1
    /\ \E i \in 1..Len(s) : IsDigit(s[i])

Unsigned(s) == IF s # <<>> /\ Head(s) \in {"-", "+"} THEN Tail(s) ELSE s

\* float() also accepts "nan" in any case after an optional sign
IsNaNLiteral(s) ==
    /\ Len(s) = 3
    /\ s[1] \in {"n", "N"}
    /\ s[2] \in {"a", "A"}
    /\ s[3] \in {"n", "N"}

\* float(s) does not raise ValueError (exponents, underscores and infinities
\* are outside the alphabet of the texts that are typed here)
IsFloatLiteral(s) ==
    \/ IsUnsignedLiteral(Unsigned(Strip(s)))
    \/ IsNaNLiteral(Unsigned(Strip(s)))

\* int(s) of a string of digits, "" counting as 0
RECURSIVE WholeValue(_)
WholeValue(s) ==
    IF s = <<>> THEN 0
    ELSE WholeValue(SubSeq(s, 1, Len(s) - 1)) * 10 + DigitValue(s[Len(s)])

\* the fraction 0.s of a string of digits, in 1/scale, truncated
RECURSIVE FractionValue(_, _)
FractionValue(s, scale) ==
    IF s = <<>> \/ scale = 1 THEN 0
    ELSE DigitValue(Head(s)) * (scale \div 10) + FractionValue(Tail(s), scale \div 10)

\* float(s) of a string float() accepts, in 1/AmountScale
Float(s) ==
    LET u == Unsigned(Strip(s))
        point == IF Contains(u, <<".">>) THEN Find(u, ".") ELSE Len(u) + 1
        magnitude == WholeValue(SubSeq(u, 1, point - 1)) * AmountScale
                     + FractionValue(SubSeq(u, point + 1, Len(u)), AmountScale)
    IN  IF Head(Strip(s)) = "-" THEN -magnitude ELSE magnitude

\* get_float_value raises ValueError("Invalid number format: ...")
Raises(value_str) ==
    \E cleaned_str \in {CleanedStr(value_str)} :
        cleaned_str # <<>> /\ ~IsFloatLiteral(cleaned_str)

\* get_float_value returns float("nan"): no comparison with it is true
IsNaN(value_str) ==
    \E cleaned_str \in {CleanedStr(value_str)} :
        IsNaNLiteral(Unsigned(Strip(cleaned_str)))

\* get_float_value, where it returns a number
get_float_value(value_str) ==
    CHOOSE value \in
        {IF cleaned_str = <<>> \/ IsNaNLiteral(Unsigned(Strip(cleaned_str)))
         THEN 0 ELSE Float(cleaned_str) : cleaned_str \in {CleanedStr(value_str)}} :
        TRUE

\* str(n) of an integer n >= 0
RECURSIVE Str(_)
Str(n) == IF n < 10 THEN <<Digits[n + 1]>> ELSE Str(n \div 10) \o <<Digits[(n % 10) + 1]>>

\* the digits s with a ',' before every group of three
RECURSIVE Grouped(_)
Grouped(s) ==
    IF Len(s) <= 3 THEN s
    ELSE Grouped(SubSeq(s, 1, Len(s) - 3)) \o <<",">> \o SubSeq(s, Len(s) - 2, Len(s))

\* round(x) of f"{x:.0f}": to the nearest whole number, halves to even
Round0(x) ==
    LET a == IF x < 0 THEN -x ELSE x
        q == a \div AmountScale
        r == a % AmountScale
    IN  IF 2 * r > AmountScale \/ (2 * r = AmountScale /\ q % 2 = 1) THEN q + 1 ELSE q

\* f"{x:,.0f}"
Format0(x) == (IF x < 0 THEN <<"-">> ELSE <<>>) \o Grouped(Str(Round0(x)))

\* currency_var, and f"{currency}{x:,.0f}"
Currency == <<"k", "r">>
Money(x) == Currency \o Format0(x)

\* loan_seeking * 0.15
AutoDownPayment(loan_seeking) == MulRate(loan_seeking, (15 * RateScale) \div 100)

\* interest_rate / 100 / 12 of the interest rate read from its entry
EntryMonthlyRate(rate) == MonthlyRate(rate * (PercentScale \div AmountScale))

\* validate_inputs: the error it shows, "" when it returns True
validate_inputs ==
    LET loan_seeking == get_float_value(loan_seeking_var)
        down_payment == get_float_value(down_payment_var)
        rate == get_float_value(interest_rate_var)
    IN  IF Raises(loan_seeking_var)
            THEN "Invalid number format"
        ELSE IF ~IsNaN(loan_seeking_var) /\ loan_seeking <= 0
            THEN "Loan seeking amount must be greater than 0"
        ELSE IF /\ ~IsNaN(loan_seeking_var)
                /\ \/ loan_seeking \div AmountScale > MaxLoanSeeking
                   \/ /\ loan_seeking \div AmountScale = MaxLoanSeeking
                      /\ loan_seeking % AmountScale > 0
            THEN "Loan seeking amount exceeds maximum limit (100 million)"
        ELSE IF Raises(down_payment_var)
            THEN "Invalid number format"
        ELSE IF ~IsNaN(down_payment_var) /\ down_payment < 0
            THEN "Down payment cannot be negative"
        ELSE IF /\ ~IsNaN(down_payment_var) /\ ~IsNaN(loan_seeking_var)
                /\ down_payment >= loan_seeking
            THEN "Down payment must be less than loan seeking amount"
        ELSE IF Raises(interest_rate_var)
            THEN "Invalid number format"
        ELSE IF ~IsNaN(interest_rate_var) /\ rate <= 0
            THEN "Interest rate must be greater than 0"
        ELSE IF ~IsNaN(interest_rate_var) /\ rate > MaxInterestRate * AmountScale
            THEN "Interest rate seems unusually high (max 30%)"
        ELSE IF Raises(principal_payment_var)
            THEN "Invalid number format"
        ELSE IF /\ ~IsNaN(principal_payment_var)
                /\ get_float_value(principal_payment_var) < 0
            THEN "Principal payment cannot be negative"
        ELSE IF Raises(extra_payment_var)
            THEN "Invalid number format"
        ELSE IF ~IsNaN(extra_payment_var) /\ get_float_value(extra_payment_var) < 0
            THEN "Extra payment cannot be negative"
        ELSE IF Raises(monthly_fee_var)
            THEN "Invalid number format"
        ELSE IF ~IsNaN(monthly_fee_var) /\ get_float_value(monthly_fee_var) < 0
            THEN "Monthly house fee cannot be negative"
        ELSE ""

\* base_monthly = (loan_amount * monthly_rate) / (1 - (1 + monthly_rate) ** -360)
BaseMonthly(la, rate) ==
    DivRate(MulRate(la, rate),
            RateScale - PowRate(DivRate(RateScale, RateScale + rate), BaselineMonths))

\* total_interest = (base_monthly * 360) - loan_amount
BaselineInterest(la, rate) == BaseMonthly(la, rate) * BaselineMonths - la

\* for _ in range(n): the body of the projection loop n times, from
\* st = [total_interest_with_extra, remaining_balance].  The n iterations are
\* composed by halves, which keeps the evaluation stack logarithmic in n.
RECURSIVE ProjectionLoop(_, _, _, _)
ProjectionLoop(n, total_monthly_payment, rate, st) ==
    IF n = 0 THEN st
    ELSE IF n = 1
    THEN [total_interest_with_extra |->
              st.total_interest_with_extra + MulRate(st.remaining_balance, rate),
          remaining_balance |-> st.remaining_balance - total_monthly_payment]
    ELSE LET half == ProjectionLoop(n \div 2, total_monthly_payment, rate, st)
         IN  \* the first half is evaluated before the second half starts
             IF half.remaining_balance <= st.remaining_balance
             THEN ProjectionLoop(n - (n \div 2), total_monthly_payment, rate, half)
             ELSE half

NoProjection ==
    [raised |-> TRUE, months_with_extra |-> 0, interest_saved |-> 0,
     years_to_payoff |-> 0, months_to_payoff |-> 0,
     years_saved |-> 0, months_saved |-> 0]

\* a projection that runs the extra-payment branch for every extra payment
PayoffProjectionOneBranch(la, rate, principal_payment, extra, baseline_interest) ==
    IF principal_payment = 0 THEN NoProjection
    ELSE LET total_monthly_payment == principal_payment + extra
             months_with_extra == la \div total_monthly_payment
             end == ProjectionLoop(months_with_extra, total_monthly_payment, rate,
                        [total_interest_with_extra |-> 0, remaining_balance |-> la])
             time_saved == (la \div principal_payment) - months_with_extra
         IN  [raised |-> FALSE,
              months_with_extra |-> months_with_extra,
              interest_saved |-> baseline_interest - end.total_interest_with_extra,
              years_to_payoff |-> months_with_extra \div 12,
              months_to_payoff |-> months_with_extra % 12,
              years_saved |-> time_saved \div 12,
              months_saved |-> time_saved % 12]

\* "Calculate payoff times": raised when a division by zero ends the try block
PayoffProjection(la, rate, principal_payment, extra, baseline_interest) ==
    IF extra > 0
    THEN LET total_monthly_payment == principal_payment + extra
             months_with_extra == la \div total_monthly_payment
             end == ProjectionLoop(months_with_extra, total_monthly_payment, rate,
                        [total_interest_with_extra |-> 0, remaining_balance |-> la])
         IN  IF principal_payment = 0 THEN NoProjection
             ELSE LET time_saved == (la \div principal_payment) - months_with_extra
                  IN  [raised |-> FALSE,
                       months_with_extra |-> months_with_extra,
                       interest_saved |-> baseline_interest - end.total_interest_with_extra,
                       years_to_payoff |-> months_with_extra \div 12,
                       months_to_payoff |-> months_with_extra % 12,
                       years_saved |-> time_saved \div 12,
                       months_saved |-> time_saved % 12]
    ELSE IF principal_payment * 12 = 0 THEN NoProjection
         ELSE [raised |-> FALSE,
               months_with_extra |-> 0,
               interest_saved |-> 0,
               years_to_payoff |-> la \div (principal_payment * 12),
               months_to_payoff |-> 0,
               years_saved |-> 0,
               months_saved |-> 0]

\* twelve months of a year without the break on an exhausted balance
RECURSIVE YearMonthsWithoutBreak(_, _, _, _)
YearMonthsWithoutBreak(k, reduction, rate, st) ==
    IF k = 0 THEN st
    ELSE YearMonthsWithoutBreak(k - 1, reduction, rate,
             [yearly_interest_total |->
                  st.yearly_interest_total + MulRate(st.remaining_balance, rate),
              remaining_balance |-> st.remaining_balance - reduction])

\* the inner loop of update_yearly_visualization: for _ in range(12) with its
\* break, k iterations left; st = [yearly_interest_total, remaining_balance]
RECURSIVE YearMonths(_, _, _, _)
YearMonths(k, reduction, rate, st) ==
    IF k = 0 \/ st.remaining_balance <= 0 THEN st
    ELSE YearMonths(k - 1, reduction, rate,
             [yearly_interest_total |->
                  st.yearly_interest_total + MulRate(st.remaining_balance, rate),
              remaining_balance |-> st.remaining_balance - reduction])

\* the outer loop of update_yearly_visualization, n years from
\* st = [remaining_balance, yearly_interest, yearly_total], composed by halves
RECURSIVE YearlyLoop(_, _, _, _, _)
YearlyLoop(n, reduction, rate, fixed, st) ==
    IF n = 0 THEN st
    ELSE IF n = 1
    THEN LET year == YearMonths(12, reduction, rate,
                         [yearly_interest_total |-> 0,
                          remaining_balance |-> st.remaining_balance])
         IN  [remaining_balance |-> year.remaining_balance,
              yearly_interest |-> Append(st.yearly_interest, year.yearly_interest_total),
              yearly_total |-> Append(st.yearly_total, fixed + year.yearly_interest_total)]
    ELSE LET half == YearlyLoop(n \div 2, reduction, rate, fixed, st)
         IN  \* the first half is evaluated before the second half starts
             IF Len(half.yearly_total) > Len(st.yearly_total)
             THEN YearlyLoop(n - (n \div 2), reduction, rate, fixed, half)
             ELSE half

\* update_yearly_visualization: the four series of bars
update_yearly_visualization(la, rate, years, principal_payment, extra, fee) ==
    LET rows == IF years > 0 THEN years ELSE 1
        base_principal == principal_payment * 12
        extra_principal == extra * 12
        end == YearlyLoop(rows, principal_payment + extra, rate,
                          base_principal + extra_principal + fee * 12,
                          [remaining_balance |-> la, yearly_interest |-> <<>>,
                           yearly_total |-> <<>>])
    IN  [yearly_base_principal |-> [y \in 1..rows |-> base_principal],
         yearly_extra_principal |-> [y \in 1..rows |-> extra_principal],
         yearly_interest |-> end.yearly_interest,
         yearly_total |-> end.yearly_total]

NoChart ==
    [yearly_base_principal |-> <<>>, yearly_extra_principal |-> <<>>,
     yearly_interest |-> <<>>, yearly_total |-> <<>>]

\* what the user types into the entries
LoanSeekingTexts == {<<"2", "0", "0", "0", "0", "0">>}
DownPaymentTexts == {<<"5", "0", "0", "0", "0">>}
InterestRateTexts == {<<"4", ".", "5">>, <<"0">>}
PrincipalPaymentTexts == {<<>>, <<"3", "0", "0">>}
ExtraPaymentTexts == {<<>>, <<"8", "0">>, <<"2", "0", "0", "0", "0">>}
MonthlyFeeTexts == {<<>>, <<"5", "0">>}

NotCalled ==
    [called |-> FALSE, raised |-> FALSE, cleaned_str |-> <<>>, nan |-> FALSE,
     value |-> 0]

\* initialize_variables, and the widgets as create_loan_details_panel leaves them
AppInit ==
    /\ loan_seeking_var = <<>>
    /\ down_payment_var = <<>>
    /\ loan_amount_var = <<>>
    /\ interest_rate_var = <<"4", ".", "5">>
    /\ principal_payment_var = <<>>
    /\ extra_payment_var = <<>>
    /\ monthly_fee_var = <<>>
    /\ down_payment_mode = "auto"
    /\ down_payment_entry = "disabled"
    /\ current_values =
           [loan_amount |-> 0, loan_seeking |-> 0, down_payment |-> 0,
            monthly_payment |-> 0, total_interest |-> 0, principal_payment |-> 0,
            extra_payment |-> 0, monthly_fee |-> 0, time_saved |-> <<0, 0>>,
            interest_saved |-> 0, loan_payoff |-> <<30, 0>>]
    /\ results =
           [monthly_payment |-> Money(0), total_interest |-> Money(0),
            monthly_principal |-> Money(0), monthly_extra |-> Money(0),
            monthly_total_principal |-> Money(0), monthly_interest |-> Money(0),
            monthly_total |-> Money(0), time_saved |-> <<0, 0>>,
            interest_saved |-> Money(0), loan_payoff_time |-> <<0, 0>>]
    /\ chart = NoChart
    /\ messagebox = ""
    /\ calcs = 0
    /\ projections = {}
    /\ exports = <<>>

\* no function has been called on its own
NoCall ==
    /\ float_argument = <<>>
    /\ float_result = NotCalled
    /\ validated = "not called"

\* the three keys the handlers store "immediately for later use"
StoreLoan(loan_seeking, down_payment, la) ==
    [current_values EXCEPT !.loan_seeking = loan_seeking,
                           !.down_payment = down_payment,
                           !.loan_amount = la]

\* update_loan_amount, the write trace of down_payment_var: the text it
\* leaves in loan_amount_var
update_loan_amount(loan_seeking_text, down_payment_text) ==
    LET loan_seeking == get_float_value(loan_seeking_text)
        down_payment == get_float_value(down_payment_text)
    IN  IF Raises(loan_seeking_text) \/ Raises(down_payment_text)
        THEN loan_amount_var
        ELSE IF loan_seeking > 0 /\ down_payment > 0
        THEN Format0(IF down_payment <= loan_seeking
                     THEN loan_seeking - down_payment ELSE 0)
        ELSE loan_amount_var

\* the user edits the loan seeking entry; its write trace runs
\* update_on_loan_seeking_change
TypeLoanSeeking(text) ==
    /\ calcs < MaxCalcs
    /\ loan_seeking_var' = text
    /\ messagebox' = ""
    /\ LET loan_seeking_str == Strip(text)
           loan_seeking == get_float_value(loan_seeking_str)
           auto_down == AutoDownPayment(loan_seeking)
           reset_down == Raises(down_payment_var)
                         \/ get_float_value(down_payment_var) <= 0
           manual_down == IF reset_down THEN 0 ELSE get_float_value(down_payment_var)
       IN  IF loan_seeking_str = <<>>
           THEN /\ down_payment_var' = <<>>
                /\ loan_amount_var' = <<>>
                /\ UNCHANGED <<down_payment_entry, current_values>>
           ELSE IF Raises(loan_seeking_str)
           THEN /\ down_payment_entry' = "disabled"
                /\ down_payment_var' = <<>>
                /\ loan_amount_var' = <<>>
                /\ UNCHANGED current_values
           ELSE IF loan_seeking > 0
           THEN IF down_payment_mode = "auto"
                THEN /\ down_payment_var' = Format0(auto_down)
                     /\ down_payment_entry' = "disabled"
                     /\ loan_amount_var' = Format0(loan_seeking - auto_down)
                     /\ current_values' = StoreLoan(loan_seeking, auto_down,
                                                    loan_seeking - auto_down)
                ELSE /\ down_payment_entry' = "normal"
                     /\ down_payment_var' = IF reset_down THEN <<"0">>
                                            ELSE down_payment_var
                     /\ loan_amount_var' = Format0(loan_seeking - manual_down)
                     /\ UNCHANGED current_values
           ELSE /\ down_payment_entry' = "disabled"
                /\ down_payment_var' = <<>>
                /\ loan_amount_var' = <<>>
                /\ UNCHANGED current_values
    /\ UNCHANGED <<interest_rate_var, principal_payment_var, extra_payment_var,
                   monthly_fee_var, down_payment_mode, results, chart, calcs,
                   projections>>
    /\ UNCHANGED <<engineSide, functionVars, exports>>

\* the user edits the down payment entry (enabled); its write trace runs
\* update_loan_amount
TypeDownPayment(text) ==
    /\ calcs < MaxCalcs
    /\ down_payment_entry = "normal"
    /\ down_payment_var' = text
    /\ messagebox' = ""
    /\ loan_amount_var' = update_loan_amount(loan_seeking_var, text)
    /\ UNCHANGED <<loan_seeking_var, interest_rate_var, principal_payment_var,
                   extra_payment_var, monthly_fee_var, down_payment_mode,
                   down_payment_entry, current_values, results, chart, calcs,
                   projections>>
    /\ UNCHANGED <<engineSide, functionVars, exports>>

\* the user edits one of the entries that have no trace
TypeInterestRate(text) ==
    /\ calcs < MaxCalcs
    /\ interest_rate_var' = text
    /\ messagebox' = ""
    /\ UNCHANGED <<loan_seeking_var, down_payment_var, principal_payment_var,
                   extra_payment_var, monthly_fee_var, loan_amount_var,
                   down_payment_mode, down_payment_entry, current_values, results,
                   chart, calcs, projections>>
    /\ UNCHANGED <<engineSide, functionVars, exports>>

TypePrincipalPayment(text) ==
    /\ calcs < MaxCalcs
    /\ principal_payment_var' = text
    /\ messagebox' = ""
    /\ UNCHANGED <<loan_seeking_var, down_payment_var, interest_rate_var,
                   extra_payment_var, monthly_fee_var, loan_amount_var,
                   down_payment_mode, down_payment_entry, current_values, results,
                   chart, calcs, projections>>
    /\ UNCHANGED <<engineSide, functionVars, exports>>

TypeExtraPayment(text) ==
    /\ calcs < MaxCalcs
    /\ extra_payment_var' = text
    /\ messagebox' = ""
    /\ UNCHANGED <<loan_seeking_var, down_payment_var, interest_rate_var,
                   principal_payment_var, monthly_fee_var, loan_amount_var,
                   down_payment_mode, down_payment_entry, current_values, results,
                   chart, calcs, projections>>
    /\ UNCHANGED <<engineSide, functionVars, exports>>

TypeMonthlyFee(text) ==
    /\ calcs < MaxCalcs
    /\ monthly_fee_var' = text
    /\ messagebox' = ""
    /\ UNCHANGED <<loan_seeking_var, down_payment_var, interest_rate_var,
                   principal_payment_var, extra_payment_var, loan_amount_var,
                   down_payment_mode, down_payment_entry, current_values, results,
                   chart, calcs, projections>>
    /\ UNCHANGED <<engineSide, functionVars, exports>>

\* the user clicks a down payment mode radio button: toggle_down_payment_mode
toggle_down_payment_mode(mode) ==
    /\ calcs < MaxCalcs
    /\ down_payment_mode' = mode
    /\ messagebox' = ""
    /\ LET loan_seeking_str == Strip(loan_seeking_var)
           loan_seeking == get_float_value(loan_seeking_var)
           auto_down == AutoDownPayment(loan_seeking)
           reset_down == get_float_value(down_payment_var) <= 0
           manual_down == IF reset_down THEN 0 ELSE get_float_value(down_payment_var)
           manual_loan == IF manual_down < loan_seeking
                          THEN loan_seeking - manual_down ELSE 0
       IN  IF mode = "auto"
           THEN /\ down_payment_entry' = "disabled"
                /\ IF /\ loan_seeking_str # <<>>
                      /\ ~Raises(loan_seeking_str)
                      /\ loan_seeking > 0
                   THEN /\ down_payment_var' = Format0(auto_down)
                        /\ loan_amount_var' = Format0(loan_seeking - auto_down)
                        /\ current_values' = StoreLoan(loan_seeking, auto_down,
                                                       loan_seeking - auto_down)
                   ELSE UNCHANGED <<down_payment_var, loan_amount_var, current_values>>
           ELSE /\ down_payment_entry' = "normal"
                /\ IF Raises(loan_seeking_var) \/ Raises(down_payment_var)
                   THEN \* except ValueError
                        /\ down_payment_var' = <<"0">>
                        /\ current_values' = [current_values EXCEPT !.down_payment = 0]
                        /\ UNCHANGED loan_amount_var
                   ELSE /\ down_payment_var' = IF reset_down THEN <<"0">>
                                               ELSE down_payment_var
                        /\ loan_amount_var' = Format0(manual_loan)
                        /\ current_values' = StoreLoan(loan_seeking, manual_down,
                                                       manual_loan)
    /\ UNCHANGED <<loan_seeking_var, interest_rate_var, principal_payment_var,
                   extra_payment_var, monthly_fee_var, results, chart, calcs,
                   projections>>
    /\ UNCHANGED <<engineSide, functionVars, exports>>

\* the loan, rate, principal payment and fee a projection was computed for
ProjectionKey(la, rate, principal_payment, fee) == <<la, rate, principal_payment, fee>>

\* a calculate that stored the loan before it validated
ValidationFailedAfterStore ==
    /\ messagebox' = validate_inputs
    /\ current_values' =
           StoreLoan(get_float_value(loan_seeking_var),
                     get_float_value(down_payment_var),
                     get_float_value(loan_seeking_var)
                     - get_float_value(down_payment_var))
    /\ UNCHANGED <<down_payment_var, loan_amount_var, monthly_fee_var,
                   results, chart, projections>>

\* validate_inputs showed an error and calculate returned
ValidationFailed ==
    /\ messagebox' = validate_inputs
    /\ UNCHANGED <<down_payment_var, loan_amount_var, monthly_fee_var,
                   current_values, results, chart, projections>>

\* the user clicks Calculate (or presses Control-Return): calculate
calculate ==
    /\ calcs < MaxCalcs
    /\ calcs' = calcs + 1
    /\ LET loan_seeking == get_float_value(loan_seeking_var)
           auto == down_payment_mode = "auto"
           down_payment == IF auto THEN AutoDownPayment(loan_seeking)
                           ELSE get_float_value(down_payment_var)
           down_payment_text == IF auto THEN Format0(down_payment)
                                ELSE down_payment_var
           la == loan_seeking - down_payment
           rate_percent == get_float_value(interest_rate_var)
           principal_payment == get_float_value(principal_payment_var)
           extra == get_float_value(extra_payment_var)
           fee == get_float_value(monthly_fee_var)
           rate == EntryMonthlyRate(rate_percent)
           monthly_interest == MulRate(la, rate)
           total_monthly == principal_payment + extra + monthly_interest + fee
           baseline_interest == BaselineInterest(la, rate)
           proj == PayoffProjection(la, rate, principal_payment, extra,
                                    baseline_interest)
           time_saved == <<proj.years_saved, proj.months_saved>>
           loan_payoff == <<proj.years_to_payoff, proj.months_to_payoff>>
       IN  IF validate_inputs # ""
           THEN ValidationFailed
           ELSE IF down_payment >= loan_seeking
           THEN /\ messagebox' =
                       "Down payment cannot be greater than or equal to loan seeking amount"
                /\ down_payment_var' = down_payment_text
                /\ loan_amount_var' =
                       IF auto THEN update_loan_amount(loan_seeking_var, down_payment_text)
                       ELSE loan_amount_var
                /\ UNCHANGED <<monthly_fee_var, current_values, results, chart,
                               projections>>
           ELSE IF proj.raised
           THEN \* ZeroDivisionError, caught by the except clause
                /\ messagebox' =
                       "An error occurred during calculation: float division by zero"
                /\ down_payment_var' = down_payment_text
                /\ loan_amount_var' = Format0(la)
                /\ current_values' = StoreLoan(loan_seeking, down_payment, la)
                /\ UNCHANGED <<monthly_fee_var, results, chart, projections>>
           ELSE /\ messagebox' = ""
                /\ down_payment_var' = down_payment_text
                /\ loan_amount_var' = Format0(la)
                /\ monthly_fee_var' = Format0(fee)
                /\ results' =
                       [monthly_payment |-> Money(total_monthly),
                        total_interest |-> Money(baseline_interest),
                        monthly_principal |-> Money(principal_payment),
                        monthly_extra |-> Money(extra),
                        monthly_total_principal |-> Money(principal_payment + extra),
                        monthly_interest |-> Money(monthly_interest),
                        monthly_total |-> Money(total_monthly),
                        time_saved |-> time_saved,
                        interest_saved |-> Money(proj.interest_saved),
                        loan_payoff_time |-> loan_payoff]
                /\ current_values' =
                       [loan_amount |-> la, loan_seeking |-> loan_seeking,
                        down_payment |-> down_payment,
                        monthly_payment |-> total_monthly,
                        total_interest |-> baseline_interest,
                        principal_payment |-> principal_payment,
                        extra_payment |-> extra, monthly_fee |-> fee,
                        time_saved |-> time_saved,
                        interest_saved |-> proj.interest_saved,
                        loan_payoff |-> loan_payoff]
                /\ chart' = update_yearly_visualization(la, rate, proj.years_to_payoff,
                                                        principal_payment, extra, fee)
                /\ LET key == ProjectionKey(la, rate_percent, principal_payment, fee)
                   IN  projections' =
                           {q \in projections : q.key = key} \cup
                           {[key |-> key, extra_payment |-> extra,
                             time_saved |-> proj.years_saved * 12 + proj.months_saved,
                             interest_saved |-> proj.interest_saved]}
    /\ UNCHANGED <<loan_seeking_var, interest_rate_var, principal_payment_var,
                   extra_payment_var, down_payment_mode, down_payment_entry>>
    /\ UNCHANGED <<engineSide, functionVars, exports>>

\* clear_displays: what it leaves in the result variables
ClearedDisplays ==
    [monthly_payment |-> Money(0), total_interest |-> Money(0),
     monthly_principal |-> Money(0), monthly_extra |-> Money(0),
     monthly_total_principal |-> Money(0), monthly_interest |-> Money(0),
     monthly_total |-> Money(0), time_saved |-> <<0, 0>>,
     interest_saved |-> Money(0), loan_payoff_time |-> <<30, 0>>]

\* the user clicks Clear (or presses Control-c): clear_fields. The write
\* traces of the two entries it empties find the loan seeking entry empty
\* and leave current_values alone
clear_fields ==
    /\ calcs < MaxCalcs
    /\ loan_seeking_var' = <<>>
    /\ down_payment_var' = <<>>
    /\ interest_rate_var' = <<"4", ".", "5">>
    /\ principal_payment_var' = <<>>
    /\ extra_payment_var' = <<>>
    /\ monthly_fee_var' = <<>>
    /\ loan_amount_var' = <<"0">>
    /\ results' = ClearedDisplays
    /\ chart' = NoChart
    /\ messagebox' = ""
    /\ UNCHANGED <<down_payment_mode, down_payment_entry, current_values, calcs,
                   projections, exports>>
    /\ UNCHANGED <<engineSide, functionVars>>

\* the page export_pdf draws from current_values, the variables and the chart
PdfPage ==
    [loan_seeking |-> current_values.loan_seeking,
     down_payment |-> current_values.down_payment,
     loan_amount |-> current_values.loan_amount,
     interest_rate |-> interest_rate_var,
     monthly_fee |-> IF monthly_fee_var = <<>> THEN Money(0) ELSE monthly_fee_var,
     results |-> results,
     chart |-> chart]

\* the messages export_pdf ends with
ExportRefused == "Please calculate loan details before exporting to PDF"
ExportSucceeded == "PDF exported successfully"
ExportFailed == "Failed to export PDF"
ExportMessages == {ExportRefused, ExportSucceeded, ExportFailed}

\* the user clicks Export (or presses Control-e): export_pdf. Past its test
\* of current_values it saves the page, unless drawing or the file system
\* raises, which the except clause reports
export_pdf ==
    /\ Len(exports) < MaxExports
    /\ IF current_values.loan_seeking <= 0 \/ current_values.loan_amount <= 0
       THEN /\ messagebox' = ExportRefused
            /\ UNCHANGED exports
       ELSE \/ /\ messagebox' = ExportSucceeded
               /\ exports' = Append(exports, PdfPage)
            \/ /\ messagebox' = ExportFailed
               /\ UNCHANGED exports
    /\ UNCHANGED <<loan_seeking_var, down_payment_var, interest_rate_var,
                   principal_payment_var, extra_payment_var, monthly_fee_var,
                   loan_amount_var, down_payment_mode, down_payment_entry,
                   current_values, results, chart, calcs, projections>>
    /\ UNCHANGED <<engineSide, functionVars>>

\* a session of the user: it ends with the MaxCalcs-th calculation
AppNext ==
    \/ \E text \in LoanSeekingTexts : TypeLoanSeeking(text)
    \/ \E text \in DownPaymentTexts : TypeDownPayment(text)
    \/ \E text \in InterestRateTexts : TypeInterestRate(text)
    \/ \E text \in PrincipalPaymentTexts : TypePrincipalPayment(text)
    \/ \E text \in ExtraPaymentTexts : TypeExtraPayment(text)
    \/ \E text \in MonthlyFeeTexts : TypeMonthlyFee(text)
    \/ \E mode \in {"auto", "manual"} : toggle_down_payment_mode(mode)
    \/ calculate

Init == EngineInit /\ AppInit /\ NoCall

\* the engine driven by a caller
Spec == Init /\ [][EngineNext]_vars

\* the application driven by its user
SpecApp == Init /\ [][AppNext]_vars

\* ------------------------------------------------ clearing and exporting
\* what the user types before clearing or exporting
ExportedLoanSeekingTexts == {<<"2", "0", "0", "0", "0", "0">>, <<"0">>}
ExportedPrincipalPaymentTexts == {<<"3", "0", "0">>}

\* a session of the user with the Clear and Export buttons
ExportNext ==
    \/ \E text \in ExportedLoanSeekingTexts : TypeLoanSeeking(text)
    \/ \E text \in ExportedPrincipalPaymentTexts : TypePrincipalPayment(text)
    \/ \E mode \in {"auto", "manual"} : toggle_down_payment_mode(mode)
    \/ calculate
    \/ clear_fields
    \/ export_pdf

SpecExport == Init /\ [][ExportNext]_vars

\* ------------------------------------------------- calculating again
\* what the user types before calculating more than once
RepeatedLoanSeekingTexts == {<<"2", "0", "0", "0", "0", "0">>}
RepeatedDownPaymentTexts == {<<"5", "0", "0", "0", "0">>}
RepeatedPrincipalPaymentTexts == {<<"3", "0", "0">>}
RepeatedExtraPaymentTexts == {<<"8", "0">>}
RepeatedMonthlyFeeTexts == {<<"5", "0">>, <<"1", "0", "0", "0">>}

\* the user fills the form, then calculates again and again without an edit
RepeatNext ==
    \/ /\ calcs = 0
       /\ \/ \E text \in RepeatedLoanSeekingTexts : TypeLoanSeeking(text)
          \/ \E text \in RepeatedDownPaymentTexts : TypeDownPayment(text)
          \/ \E text \in RepeatedPrincipalPaymentTexts : TypePrincipalPayment(text)
          \/ \E text \in RepeatedExtraPaymentTexts : TypeExtraPayment(text)
          \/ \E text \in RepeatedMonthlyFeeTexts : TypeMonthlyFee(text)
          \/ \E mode \in {"auto", "manual"} : toggle_down_payment_mode(mode)
    \/ calculate

SpecRepeat == Init /\ [][RepeatNext]_vars

\* ------------------------------------------- get_float_value on its own
\* the currency symbols offered by create_currency_panel
CurrencySymbols ==
    {<<"k", "r">>, <<"$">>, <<"€">>, <<"C", "$">>, <<"A", "$">>, <<"₹">>,
     <<"¥">>, <<"£">>}

MaxLen == 4
Alphabet == {"1", "5", ".", ",", "k", "r", " ", "-"}

\* the strings of at most n characters of the alphabet
RECURSIVE Texts(_)
Texts(n) ==
    IF n = 0 THEN {<<>>}
    ELSE LET shorter == Texts(n - 1)
         IN  shorter \cup {s \o <<c>> : s \in shorter, c \in Alphabet}

\* numbers as they are typed without a currency symbol
PlainNumbers == {<<"1">>, <<"1", "5">>, <<"1", ".", "5">>}

\* the arguments get_float_value is called with
FloatArguments ==
    Texts(MaxLen)
    \cup {symbol \o number : symbol \in CurrencySymbols, number \in PlainNumbers}
    \cup {number \o symbol : symbol \in CurrencySymbols, number \in PlainNumbers}

InitFloat ==
    /\ EngineInit
    /\ AppInit
    /\ float_argument \in FloatArguments
    /\ float_result = NotCalled
    /\ validated = "not called"

\* what a call of get_float_value leaves: whether it raised, the string it
\* handed to float() and the number it returned
FloatResult(value_str) ==
    [called |-> TRUE,
     raised |-> Raises(value_str),
     cleaned_str |-> CleanedStr(value_str),
     nan |-> ~Raises(value_str) /\ IsNaN(value_str),
     value |-> IF Raises(value_str) THEN 0 ELSE get_float_value(value_str)]

\* self.get_float_value(float_argument)
CallGetFloatValue ==
    /\ ~float_result.called
    /\ float_result' = FloatResult(float_argument)
    /\ UNCHANGED <<float_argument, validated, engineSide, appVars>>

SpecFloat == InitFloat /\ [][CallGetFloatValue]_vars

\* ---------------------------------------------- validate_inputs on its own
\* what the user types into the entries before the inputs are validated
ValidatedLoanSeekingTexts ==
    {<<"x">>, <<"2", "0", "0", "0", "0", "0">>,
     <<"1", "0", "0", "0", "0", "0", "0", "0", "0">>,
     <<"1", "0", "0", "0", "0", "0", "0", "0", "1">>}
ValidatedDownPaymentTexts ==
    {<<"x">>, <<"-", "1">>, <<"2", "0", "0", "0", "0", "0">>}
ValidatedInterestRateTexts == {<<>>, <<"3", "0">>, <<"3", "0", ",", "1">>}
ValidatedPrincipalPaymentTexts == {<<"-", "1">>, <<"n", "a", "n">>}
ValidatedExtraPaymentTexts == {<<"-", "1">>}
ValidatedMonthlyFeeTexts == {<<"5", "0", "x">>}

\* self.validate_inputs()
CallValidateInputs ==
    /\ validated = "not called"
    /\ validated' = IF validate_inputs = "" THEN "True" ELSE "False"
    /\ messagebox' = validate_inputs
    /\ UNCHANGED <<loan_seeking_var, down_payment_var, loan_amount_var,
                   interest_rate_var, principal_payment_var, extra_payment_var,
                   monthly_fee_var, down_payment_mode, down_payment_entry,
                   current_values, results, chart, calcs, projections>>
    /\ UNCHANGED <<float_argument, float_result, engineSide, exports>>

\* the user fills the form, then the inputs are validated
ValidateNext ==
    \/ /\ validated = "not called"
       /\ \/ \E text \in ValidatedLoanSeekingTexts : TypeLoanSeeking(text)
          \/ \E text \in ValidatedDownPaymentTexts : TypeDownPayment(text)
          \/ \E text \in ValidatedInterestRateTexts : TypeInterestRate(text)
          \/ \E text \in ValidatedPrincipalPaymentTexts : TypePrincipalPayment(text)
          \/ \E text \in ValidatedExtraPaymentTexts : TypeExtraPayment(text)
          \/ \E text \in ValidatedMonthlyFeeTexts : TypeMonthlyFee(text)
          \/ \E mode \in {"auto", "manual"} : toggle_down_payment_mode(mode)
    \/ CallValidateInputs

SpecValidate == Init /\ [][ValidateNext]_vars

\* ------------------------------------------------- reading the last result
Called == pc = "idle" /\ calls > 0
Sched == result.schedule
TermMonths == pre.term_years * 12

\* loan_amount > 0, 0 < interest_rate <= 30, term_years >= 1, extra_payment >= 0
ValidParams(p) ==
    /\ p.loan_amount > 0
    /\ p.interest_rate > 0
    /\ p.interest_rate <= 30 * PercentScale
    /\ p.term_years >= 1
    /\ p.extra_payment >= 0

\* the balance month i started from
PrevBalance(i) == IF i = 1 THEN pre.loan_amount ELSE Sched[i - 1].balance

\* month i's principal component plus the extra payment exceeded the balance
ClampAt(i) == Sched[i].principal + pre.extra_payment > PrevBalance(i)

RECURSIVE SumField(_, _, _)
SumField(s, f, n) == IF n = 0 THEN 0 ELSE SumField(s, f, n - 1) + s[n][f]

\* C1: for valid parameters the recorded balance is never negative and never
\* increases: entry 1's balance is <= loan_amount, each later entry's balance
\* is <= the previous entry's.
C1_BalanceMonotone ==
    (Called /\ ValidParams(pre)) =>
        \A i \in 1..Len(Sched) :
            /\ Sched[i].balance >= 0
            /\ Sched[i].balance <= PrevBalance(i)

C1_Witness ==
    /\ Called /\ ValidParams(pre)
    /\ Len(Sched) >= 2
    /\ Sched[2].balance < Sched[1].balance
    /\ Sched[Len(Sched)].balance = 0

\* C2: whenever a month's principal component plus extra payment exceeds the
\* remaining balance, the amount applied that month is the remaining balance
\* and the entry's balance is exactly 0; every schedule shorter than
\* term_years*12 ends with a balance of exactly 0.
C2_ClampToZero ==
    (Called /\ ValidParams(pre)) =>
        /\ \A i \in 1..Len(Sched) :
              ClampAt(i) =>
                  /\ Sched[i].payment - Sched[i].fee = PrevBalance(i)
                  /\ Sched[i].balance = 0
        /\ Len(Sched) < TermMonths => Sched[Len(Sched)].balance = 0

C2_Witness ==
    /\ Called /\ ValidParams(pre)
    /\ Len(Sched) > 1 /\ Len(Sched) < TermMonths
    /\ ClampAt(Len(Sched))
    /\ Sched[Len(Sched)].payment - Sched[Len(Sched)].fee > 0

\* C3: calculate_amortization leaves loan_amount, interest_rate, term_years,
\* extra_payment and monthly_fee as they were before the call.
C3_ParametersUnchanged ==
    Called => EngineFields = pre

\* C4: two invocations of calculate_amortization on the parameters the caller
\* supplied return identical results.
C4_Idempotent ==
    (pc = "idle" /\ calls >= 2) => result = prev_result

C6_ResultConsistent ==
    Called =>
        /\ Len(Sched) <= TermMonths
        /\ \A i \in 1..Len(Sched) : Sched[i].month = i
        /\ result.final_payment_month = Len(Sched)
        /\ result.total_interest = SumField(Sched, "interest", Len(Sched))

C6_Witness ==
    /\ Called
    /\ Len(Sched) = TermMonths
    /\ result.total_interest > 0

\* C7: in every entry, payment minus fee equals the principal field plus the
\* extra_payment field, and equals the fall of the balance that month.
C7_PaymentSplit ==
    Called =>
        \A i \in 1..Len(Sched) :
            /\ Sched[i].payment - Sched[i].fee
                   = Sched[i].principal + Sched[i].extra_payment
            /\ Sched[i].payment - Sched[i].fee = PrevBalance(i) - Sched[i].balance

\* the rounding the fixed-point arithmetic may leave in a sum over a schedule:
\* one part in 100000 of the loan
RoundingTolerance(la) == la \div 100000

\* C8: with extra_payment = 0 and valid parameters the schedule has exactly
\* term_years*12 entries and the principal fields sum to loan_amount within
\* the rounding tolerance.
C8_FullTermWithoutExtra ==
    (Called /\ ValidParams(pre) /\ pre.extra_payment = 0) =>
        /\ Len(Sched) = TermMonths
        /\ LET total == SumField(Sched, "principal", Len(Sched))
           IN  /\ total - pre.loan_amount <= RoundingTolerance(pre.loan_amount)
               /\ pre.loan_amount - total <= RoundingTolerance(pre.loan_amount)

C8_Witness ==
    /\ Called /\ ValidParams(pre) /\ pre.extra_payment = 0
    /\ Len(Sched) = 24
    /\ SumField(Sched, "principal", Len(Sched)) > 0

\* C9: among first calls on engines configured with the same loan_amount,
\* interest_rate, term_years and monthly_fee, a larger extra_payment never
\* gives a larger final_payment_month nor a larger total_interest.
C9_ExtraMonotone ==
    \A x \in fresh, y \in fresh :
        x.extra_payment <= y.extra_payment =>
            /\ y.final_payment_month <= x.final_payment_month
            /\ y.total_interest <= x.total_interest

C9_Witness ==
    /\ interest_rate > 0
    /\ \E x \in fresh, y \in fresh :
           /\ x.extra_payment = 0
           /\ y.extra_payment > 0
           /\ y.final_payment_month < x.final_payment_month
           /\ y.total_interest < x.total_interest


C10_ProjectionMonotone ==
    \A x \in projections : \A y \in projections :
        (/\ x.key = y.key
         /\ x.key[3] > 0
         /\ x.extra_payment <= y.extra_payment)
        => /\ y.time_saved >= x.time_saved
           /\ y.interest_saved >= x.interest_saved

\* C11: with a principal payment of 0 calculate never divides by zero: no
\* ZeroDivisionError reaches the except clause of calculate
C11_NoDivisionByZero ==
    messagebox # "An error occurred during calculation: float division by zero"

\* C12: the yearly breakdown drawn by calculate has ceil(monthsToPayoff / 12)
\* rows, and one row when monthsToPayoff is 0, monthsToPayoff being the
\* payoff time calculate reports
MonthsToPayoff == results.loan_payoff_time[1] * 12 + results.loan_payoff_time[2]

C12_YearlyRows ==
    chart # NoChart =>
        Len(chart.yearly_total) =
            IF MonthsToPayoff = 0 THEN 1 ELSE (MonthsToPayoff + 11) \div 12

\* C13: when calculate ran with an extra payment of 0 and a positive
\* principal payment, it reports a time saved of 0 years 0 months and an
\* interest saved of 0
C13_NoExtraNoSaving ==
    (current_values.principal_payment > 0 /\ current_values.extra_payment = 0)
    => /\ results.time_saved = <<0, 0>>
       /\ results.interest_saved = Money(0)
       /\ current_values.time_saved = <<0, 0>>
       /\ current_values.interest_saved = 0

C13_Witness ==
    /\ chart # NoChart
    /\ current_values.principal_payment > 0
    /\ current_values.extra_payment = 0
    /\ current_values.total_interest > 0

\* C15: every row of the yearly breakdown has basePrincipal = principal
\* payment * 12, extraPrincipal = extra payment * 12 and total = basePrincipal
\* + extraPrincipal + the year's interest + monthly fee * 12, the year's
\* interest being the sum of balance * monthly rate over the months of that
\* year in which the balance, reduced by principal + extra payment per month
\* from the loan amount on, is still positive
FlatBalance(la, reduction, k) == la - (k - 1) * reduction

RECURSIVE InterestOfMonths(_, _, _, _, _)
InterestOfMonths(la, reduction, rate, first, last) ==
    IF first > last THEN 0
    ELSE (IF FlatBalance(la, reduction, first) > 0
          THEN MulRate(FlatBalance(la, reduction, first), rate) ELSE 0)
         + InterestOfMonths(la, reduction, rate, first + 1, last)

ChartMatchesInputs(ch, values, rate_text) ==
    LET la == values.loan_amount
        principal_payment == values.principal_payment
        extra == values.extra_payment
        fee == values.monthly_fee
        rate == EntryMonthlyRate(get_float_value(rate_text))
        rows == Len(ch.yearly_total)
    IN  /\ rows >= 1
        /\ Len(ch.yearly_base_principal) = rows
        /\ Len(ch.yearly_extra_principal) = rows
        /\ Len(ch.yearly_interest) = rows
        /\ \A y \in 1..rows :
              /\ ch.yearly_base_principal[y] = principal_payment * 12
              /\ ch.yearly_extra_principal[y] = extra * 12
              /\ ch.yearly_interest[y] =
                     InterestOfMonths(la, principal_payment + extra, rate,
                                      12 * (y - 1) + 1, 12 * y)
              /\ ch.yearly_total[y] =
                     principal_payment * 12 + extra * 12
                     + ch.yearly_interest[y] + fee * 12

C15_YearlyBreakdown ==
    [][(calcs' = calcs + 1 /\ chart' # NoChart /\ messagebox' = "")
       => ChartMatchesInputs(chart', current_values', interest_rate_var')]_vars

\* a breakdown with a fee whose balance runs out within the year
C15_Witness ==
    /\ chart # NoChart
    /\ messagebox = ""
    /\ current_values.monthly_fee > 0
    /\ current_values.extra_payment > 0
    /\ Len(chart.yearly_total) = 1
    /\ FlatBalance(current_values.loan_amount,
                   current_values.principal_payment + current_values.extra_payment,
                   12) < 0
    /\ chart.yearly_interest[1] > 0

\* C17: validation runs before any computation: a calculate whose
\* validate_inputs fails changes no result display variable, not the stored
\* current_values and not the yearly chart
C17_ValidationFirst ==
    [][(calcs' = calcs + 1 /\ validate_inputs # "")
       => UNCHANGED <<results, current_values, chart>>]_vars

\* a calculate that failed validation after one that drew the chart
C17_Witness ==
    /\ calcs = 2
    /\ messagebox = "Interest rate must be greater than 0"
    /\ chart # NoChart
    /\ results.monthly_payment # Money(0)

\* C20: with an extra payment, the months to payoff that calculate reports
\* are the flat reductions of principal payment + extra payment after which
\* no balance remains
C20_NoBalanceRemains ==
    [][(calcs' = calcs + 1 /\ messagebox' = "" /\ current_values'.extra_payment > 0)
       => current_values'.loan_amount
          - (current_values'.loan_payoff[1] * 12 + current_values'.loan_payoff[2])
            * (current_values'.principal_payment + current_values'.extra_payment)
          <= 0]_vars

\* C16: validate_inputs returns True exactly when every field parses and
\* 0 < loan seeking <= 100,000,000, 0 <= down payment < loan seeking,
\* 0 < interest rate <= 30 and principal payment, extra payment and monthly
\* fee are >= 0, an empty field counting as 0
Parses(value_str) == ~Raises(value_str)

\* the number read from a field is one, and lies between the two bounds
Within(value_str, low, high) ==
    /\ ~IsNaN(value_str)
    /\ low <= get_float_value(value_str)
    /\ get_float_value(value_str) <= high

\* the number read from a field is one, and is not negative
NotNegative(value_str) == ~IsNaN(value_str) /\ get_float_value(value_str) >= 0

InputsValid ==
    /\ Parses(loan_seeking_var) /\ Parses(down_payment_var)
    /\ Parses(interest_rate_var) /\ Parses(principal_payment_var)
    /\ Parses(extra_payment_var) /\ Parses(monthly_fee_var)
    /\ Within(loan_seeking_var, 1, MaxLoanSeeking * AmountScale)
    /\ Within(down_payment_var, 0, get_float_value(loan_seeking_var) - 1)
    /\ Within(interest_rate_var, 1, MaxInterestRate * AmountScale)
    /\ NotNegative(principal_payment_var)
    /\ NotNegative(extra_payment_var)
    /\ NotNegative(monthly_fee_var)

C16_ValidateExactly ==
    validated # "not called" => (validated = "True" <=> InputsValid)

\* C18: a number with any of the offered currency symbols before or after
\* it parses to the same number as without the symbol
ParsesAs(number) ==
    /\ ~float_result.raised
    /\ ~float_result.nan
    /\ float_result.value = Float(number)

C18_StripsEverySymbol ==
    float_result.called =>
        \A symbol \in CurrencySymbols, number \in PlainNumbers :
            float_argument \in {symbol \o number, number \o symbol}
                => ParsesAs(number)

\* C19: ',' and '.' are the same decimal separator; of several separators
\* the first is kept and the others are deleted, the digits staying in
\* order; the empty string gives 0.0; a string that is still not a number
\* raises the invalid number format error
Separators == {",", "."}
HasDigit(s) == \E i \in 1..Len(s) : IsDigit(s[i])
DigitsAndSeparators(s) ==
    HasDigit(s) /\ \A i \in 1..Len(s) : IsDigit(s[i]) \/ s[i] \in Separators
SeparatorCount(s) == Cardinality({i \in 1..Len(s) : s[i] \in Separators})
FirstSeparator(s) ==
    CHOOSE i \in 1..Len(s) :
        s[i] \in Separators /\ \A j \in 1..(i - 1) : s[j] \notin Separators

\* the digits before the first separator, a period, the digits after it
FirstSeparatorOnly(s) ==
    IF SeparatorCount(s) = 0 THEN s
    ELSE SelectSeq(SubSeq(s, 1, FirstSeparator(s) - 1), IsDigit)
         \o <<".">>
         \o SelectSeq(SubSeq(s, FirstSeparator(s) + 1, Len(s)), IsDigit)

C19_Separators ==
    float_result.called =>
        /\ float_result = FloatResult(Replace(float_argument, <<",">>, <<".">>))
        /\ DigitsAndSeparators(float_argument) =>
               /\ ~float_result.raised
               /\ float_result.cleaned_str = FirstSeparatorOnly(float_argument)
               /\ float_result.value = Float(FirstSeparatorOnly(float_argument))
        /\ float_argument = <<>> =>
               ~float_result.raised /\ float_result.value = 0
        /\ (~HasDigit(float_argument)
            /\ \E i \in 1..Len(float_argument) :
                   float_argument[i] \in Separators \cup {"-"})
               => float_result.raised
        /\ (/\ ~Contains(float_argument, <<"k", "r">>)
            /\ \E i \in 1..Len(float_argument) : float_argument[i] \in {"k", "r"})
               => float_result.raised

\* a comma and a period with digits on both sides of the second separator
C19_Witness ==
    /\ float_result.called
    /\ float_argument = <<"1", ",", "5", ".">> \/ float_argument = <<",", "5", ".", "1">>
    /\ ~float_result.raised

\* C21: the payoff projection of calculate iterates at most the full term of
\* 360 months for every validated input (its loop runs once for each of the
\* months to payoff it reports)
C21_ProjectionWithinTerm ==
    [][(calcs' = calcs + 1 /\ messagebox' = "" /\ current_values'.extra_payment > 0)
       => current_values'.loan_payoff[1] * 12 + current_values'.loan_payoff[2]
          <= BaselineMonths]_vars

\* C23: switching the down payment mode from auto to manual without an edit
\* keeps the amounts: the down payment is still 15% of the loan seeking
\* amount, and the displayed and the stored loan amount are still the loan
\* seeking amount minus that down payment
AutoAmounts(seeking_text, down_text, amount_text) ==
    /\ ~Raises(seeking_text)
    /\ get_float_value(seeking_text) > 0
    /\ ~Raises(down_text)
    /\ get_float_value(down_text) = AutoDownPayment(get_float_value(seeking_text))
    /\ amount_text =
           Format0(get_float_value(seeking_text)
                   - AutoDownPayment(get_float_value(seeking_text)))

C23_ToggleKeepsAmounts ==
    [][(/\ down_payment_mode = "auto"
        /\ down_payment_mode' = "manual"
        /\ ~Raises(loan_seeking_var)
        /\ get_float_value(loan_seeking_var) > 0
        /\ down_payment_var = Format0(AutoDownPayment(get_float_value(loan_seeking_var))))
       => /\ AutoAmounts(loan_seeking_var', down_payment_var', loan_amount_var')
          /\ current_values'.down_payment =
                 AutoDownPayment(get_float_value(loan_seeking_var))
          /\ current_values'.loan_amount =
                 get_float_value(loan_seeking_var)
                 - AutoDownPayment(get_float_value(loan_seeking_var))]_vars

\* C27: a calculate that passes validation and then fails with an error
\* reports it and leaves current_values and every displayed variable as
\* they were
C27_FailureChangesNothing ==
    [][(/\ calcs' = calcs + 1
        /\ messagebox' = "An error occurred during calculation: float division by zero")
       => UNCHANGED <<current_values, results, chart, loan_amount_var,
                      down_payment_var, monthly_fee_var>>]_vars

\* C22: a calculate that follows a successful calculate, with no edit in
\* between, produces the same displayed results and the same current_values
C22_CalculateAgain ==
    [][(calcs' = calcs + 1 /\ calcs >= 1 /\ messagebox = "")
       => (results' = results /\ current_values' = current_values)]_vars

\* C24: the down payment entry is enabled exactly when the down payment
\* mode is manual
C24_EntryFollowsMode ==
    down_payment_entry = "normal" <=> down_payment_mode = "manual"

\* C25: in a state reached without a successful calculate, export_pdf
\* reports that the loan details must be calculated first and writes nothing
C25_ExportNeedsCalculate ==
    [][(projections = {} /\ messagebox' \in ExportMessages)
       => (messagebox' = ExportRefused /\ exports' = exports)]_vars

\* C26: between a clear_fields that follows a successful calculate and the
\* next successful calculate, when the displays are the cleared ones,
\* export_pdf is refused
C26_NoExportAfterClear ==
    [][(/\ results = ClearedDisplays
        /\ projections # {}
        /\ messagebox' \in ExportMessages)
       => (messagebox' = ExportRefused /\ exports' = exports)]_vars

====
